---- MODULE Spec2Model ----
(***************************************************************************)
(* Booking frequency analysis (src/app.py): the frequency-table            *)
(* computation create_frequency_table, the loader parse_contents and the   *)
(* Dash callbacks store_data, update_period_selector, update_outputs and   *)
(* export_data, as a state machine over the components' properties.        *)
(*                                                                         *)
(* Python values are modelled as follows.  A str that the code compares,   *)
(* searches or parses is a sequence of one-character strings; None (and    *)
(* the empty str, which the code treats alike: both are falsy) is the      *)
(* empty sequence.  A data frame is a record of its column names and its   *)
(* rows in order.  A timestamp is a record [y, m] (only the month is ever  *)
(* read) or NaT.  An exception is a result record carrying its message.    *)
(***************************************************************************)
EXTENDS Integers, Sequences, FiniteSets, TLC

VARIABLES
    stored_data,      \* dcc.Store 'stored-data'.data: None or [data, filename]
    upload_feedback,  \* 'upload-feedback' children and className
    analysis_type,    \* dcc.RadioItems 'analysis-type'.value
    max_upper,        \* dcc.Input 'max-upper'.value
    period_selector,  \* 'period-selector' children: the dropdowns now shown
    histogram,        \* dcc.Graph 'histogram'.figure
    table_container,  \* 'table-container' children: the rows of the html.Table
    results_section,  \* 'results-section'.style.display
    status_message,   \* 'status-message' children and className
    download_xlsx,    \* dcc.Download 'download-xlsx'.data
    last_run          \* history: the State values of the last successful run

vars == <<stored_data, upload_feedback, analysis_type, max_upper, period_selector,
          histogram, table_container, results_section, status_message,
          download_xlsx, last_run>>

-----------------------------------------------------------------------------
(* Bounds of the model. *)

\* Rows of a data frame handed to the analyzer.
MaxRows == 3

\* Largest max_upper handed to the analyzer.
MaxUpper == 2

\* Largest number the user types into the 'max-upper' input.
MaxTyped == 1

\* Person ids, first names, class names and timestamps of the analyzed rows.
PersonIds == {1, 2}

FirstNames == {"Al"}

None == <<>>

NaT == [nat |-> TRUE]

December == [y |-> 2023, m |-> 12]

January == [y |-> 2024, m |-> 1]

Timestamps == {NaT, December, January}

Yoga == <<"Y", "o", "g", "a">>

SelfPracticeLower == <<"s", "e", "l", "f", " ", "p", "r", "a", "c", "t", "i", "c", "e">>

\* The max_upper values handed to the analyzer, and those the user types.
MaxUpperInputs == (0 - 1) .. MaxUpper

TypedMaxUpper == 0 .. MaxTyped

-----------------------------------------------------------------------------
(* Strings. *)

Chars == <<" ", "-", "0", "1", "2", "3", "4", "5", "6", "7", "8", "9", ">",
           "N", "P", "S", "T", "Y", "a", "c", "e", "f", "g", "i", "l", "n",
           "o", "p", "r", "s", "t", "y">>

\* The code point order of the characters in use (Chars is listed in it).
OrdOf == [c \in {Chars[i] : i \in 1 .. Len(Chars)} |->
             CHOOSE i \in 1 .. Len(Chars) : Chars[i] = c]

Ord(c) == OrdOf[c]

\* str.lower on one character.
LowerChar(c) ==
    CASE c = "N" -> "n"
      [] c = "P" -> "p"
      [] c = "S" -> "s"
      [] c = "T" -> "t"
      [] c = "Y" -> "y"
      [] OTHER -> c

Lower(s) == [i \in 1 .. Len(s) |-> LowerChar(s[i])]

\* Python's str comparison a <= b: lexicographic by code point.
RECURSIVE StrLE(_, _)
StrLE(a, b) ==
    IF a = <<>> THEN TRUE
    ELSE IF b = <<>> THEN FALSE
    ELSE IF a[1] = b[1] THEN StrLE(Tail(a), Tail(b))
    ELSE Ord(a[1]) < Ord(b[1])

\* needle in hay.
IsSubstring(needle, hay) ==
    \E k \in 0 .. (Len(hay) - Len(needle)) :
        \A i \in 1 .. Len(needle) : hay[k + i] = needle[i]

Digit(d) == Chars[3 + d]

RECURSIVE NatToStr(_)
NatToStr(n) ==
    IF n < 10 THEN <<Digit(n)>> ELSE NatToStr(n \div 10) \o <<Digit(n % 10)>>

\* str(n) of an int.
IntToStr(n) == IF n < 0 THEN <<"-">> \o NatToStr(0 - n) ELSE NatToStr(n)

DigitValue(c) == Ord(c) - 3

RECURSIVE StrToNat(_)
StrToNat(s) ==
    IF s = <<>> THEN 0
    ELSE 10 * StrToNat(SubSeq(s, 1, Len(s) - 1)) + DigitValue(s[Len(s)])

\* int(s) of a decimal literal.
StrToInt(s) == IF s[1] = "-" THEN 0 - StrToNat(Tail(s)) ELSE StrToNat(s)

\* s.replace(c, '').
RemoveChar(s, c) == SelectSeq(s, LAMBDA x : x # c)

TwoDigits(n) == IF n < 10 THEN <<"0">> \o NatToStr(n) ELSE NatToStr(n)

\* Series.dt.to_period("M").astype(str) on one timestamp: "YYYY-MM", and "NaT"
\* for a missing one.
PeriodStr(ts) ==
    IF ts = NaT THEN <<"N", "a", "T">>
    ELSE NatToStr(ts.y) \o <<"-">> \o TwoDigits(ts.m)

-----------------------------------------------------------------------------
(* Sequences. *)

Range(s) == {s[i] : i \in 1 .. Len(s)}

RECURSIVE SumSeq(_)
SumSeq(s) == IF s = <<>> THEN 0 ELSE s[1] + SumSeq(Tail(s))

\* [v] * n.
Repeat(v, n) == [i \in 1 .. n |-> v]

RECURSIVE Concat(_)
Concat(ss) == IF ss = <<>> THEN <<>> ELSE ss[1] \o Concat(Tail(ss))

\* sorted(S) for a set of ints.
RECURSIVE SortedInts(_)
SortedInts(S) ==
    IF S = {} THEN <<>>
    ELSE LET m == CHOOSE x \in S : \A y \in S : x <= y
         IN <<m>> \o SortedInts(S \ {m})

\* sorted(S) for a set of strs.
RECURSIVE SortedStrs(_)
SortedStrs(S) ==
    IF S = {} THEN <<>>
    ELSE LET m == CHOOSE x \in S : \A y \in S : StrLE(x, y)
         IN <<m>> \o SortedStrs(S \ {m})

\* Series.drop_duplicates: the first occurrence of each value, in order.
DropDuplicates(s) ==
    LET keep == SelectSeq([i \in 1 .. Len(s) |-> i],
                          LAMBDA i : \A j \in 1 .. (i - 1) : s[j] # s[i])
    IN [k \in 1 .. Len(keep) |-> s[keep[k]]]

\* zip(a, b): pairs up to the shorter of the two.
Zip(a, b) ==
    [i \in 1 .. (IF Len(a) < Len(b) THEN Len(a) ELSE Len(b)) |-> <<a[i], b[i]>>]

-----------------------------------------------------------------------------
(* create_frequency_table. *)

RequiredColumns == {"Id_Person", "FirstName", "Class_Name", "Start_Date_time"}

\* What a call yields: a value, or an exception and its str().
Return(v) == [kind |-> "return", value |-> v]

Raise(msg) == [kind |-> "raise", error |-> msg]

\* data[col] on a frame without the column; str() of the KeyError is the quoted name.
KeyError(col) == Raise(<<"'", col, "'">>)

\* Lines 19-25: the rows of the window; None when no window is given.
WindowRows(data, period, start_period, end_period) ==
    IF period # None
    THEN SelectSeq(data.rows, LAMBDA r : PeriodStr(r.Start_Date_time) = period)
    ELSE IF start_period # None /\ end_period # None
    THEN SelectSeq(data.rows,
                   LAMBDA r : LET p == PeriodStr(r.Start_Date_time)
                              IN StrLE(start_period, p) /\ StrLE(p, end_period))
    ELSE None

HasWindow(period, start_period, end_period) ==
    period # None \/ (start_period # None /\ end_period # None)

\* Series.str.contains("Self Practice", case=False, na=False) on one value.
SelfPractice == <<"S", "e", "l", "f", " ", "P", "r", "a", "c", "t", "i", "c", "e">>

ContainsSelfPractice(class_name) ==
    IF class_name = None THEN FALSE
    ELSE IsSubstring(Lower(SelfPractice), Lower(class_name))

\* Line 28.
ExcludeSelfPractice(rows) ==
    SelectSeq(rows, LAMBDA r : ~ContainsSelfPractice(r.Class_Name))

\* Line 31: groupby("Id_Person").size(), one entry per id in ascending order.
GroupSizes(rows) ==
    LET ids == SortedInts({rows[i].Id_Person : i \in 1 .. Len(rows)})
    IN [k \in 1 .. Len(ids) |->
           [id |-> ids[k],
            size |-> Len(SelectSeq(rows, LAMBDA r : r.Id_Person = ids[k]))]]

\* sum(booking_frequencies == i), sum(booking_frequencies <= i),
\* sum(booking_frequencies > i), len(booking_frequencies).
CountEq(bf, i) == Len(SelectSeq(bf, LAMBDA e : e.size = i))

CountLE(bf, i) == Len(SelectSeq(bf, LAMBDA e : e.size <= i))

CountGT(bf, i) == Len(SelectSeq(bf, LAMBDA e : e.size > i))

\* A cell of the "Freq" column: an int, or the str of the overflow row.
IntCell(i) == [type |-> "int", int |-> i]

StrCell(s) == [type |-> "str", str |-> s]

\* Line 35: f">{max_upper}".
OverflowLabel(mu) == StrCell(<<">">> \o IntToStr(mu))

\* Lines 36-37, 38-39, 40-41: a column's entry for numeric row i and its entry
\* for the overflow row.
StudentsAt(bf, i) == CountEq(bf, i)

\* (as a slip would have it: the overflow row counting from max_upper + 2)
StudentsOverFromNext(bf, mu) == CountGT(bf, mu + 1)

StudentsOver(bf, mu) == CountGT(bf, mu)

CumFromStartAt(bf, i) == CountLE(bf, i)

CumFromStartOver(bf, mu) == Len(bf)

\* (as a slip would have it: 'Cum ->End' counting row i's own persons too)
CumToEndAtInclusive(bf, i) == Len(bf) - CountLE(bf, i - 1)

CumToEndAt(bf, i) == Len(bf) - CountLE(bf, i)

CumToEndOver(bf, mu) == CountGT(bf, mu)

\* Lines 45-52: get_student_details(freq).
get_student_details(rows, bf, mu, freq) ==
    LET hit == IF freq.type = "str" /\ freq.str # <<>> /\ freq.str[1] = ">"
               THEN SelectSeq(bf, LAMBDA e : e.size > mu)
               ELSE SelectSeq(bf, LAMBDA e : freq.type = "int" /\ e.size = freq.int)
        ids == [k \in 1 .. Len(hit) |-> hit[k].id]
        sel == SelectSeq(rows, LAMBDA r : r.Id_Person \in Range(ids))
        names == DropDuplicates([k \in 1 .. Len(sel) |-> sel[k].FirstName])
        pairs == Zip(names, ids)
    IN [k \in 1 .. Len(pairs) |-> [name |-> pairs[k][1], id |-> pairs[k][2]]]

\* Lines 34-55: the table of the filtered rows.
FrequencyTable(rows, mu) ==
    LET bf == GroupSizes(rows)
        n == IF mu < 0 THEN 0 ELSE mu
        freq == [i \in 1 .. (n + 1) |-> IF i <= n THEN IntCell(i) ELSE OverflowLabel(mu)]
    IN [i \in 1 .. (n + 1) |->
           [Freq |-> freq[i],
            Students |-> IF i <= n THEN StudentsAt(bf, i) ELSE StudentsOver(bf, mu),
            CumStart |-> IF i <= n THEN CumFromStartAt(bf, i) ELSE CumFromStartOver(bf, mu),
            CumEnd |-> IF i <= n THEN CumToEndAt(bf, i) ELSE CumToEndOver(bf, mu),
            Details |-> get_student_details(rows, bf, mu, freq[i])]]

\* Lines 17-55.  The columns are read in this order: Start_Date_time (20, 22),
\* Class_Name (28), Id_Person (31), FirstName (51).
create_frequency_table(data, period, start_period, end_period, mu) ==
    IF "Start_Date_time" \notin data.columns /\ HasWindow(period, start_period, end_period)
    THEN KeyError("Start_Date_time")
    ELSE IF ~HasWindow(period, start_period, end_period) THEN Return(None)
    ELSE IF "Class_Name" \notin data.columns THEN KeyError("Class_Name")
    ELSE IF "Id_Person" \notin data.columns THEN KeyError("Id_Person")
    ELSE IF "FirstName" \notin data.columns THEN KeyError("FirstName")
    ELSE Return(FrequencyTable(
             ExcludeSelfPractice(WindowRows(data, period, start_period, end_period)), mu))

-----------------------------------------------------------------------------
(* parse_contents and store_data. *)

\* pd.to_datetime(..., errors="coerce") on one cell: a timestamp, and NaT for a
\* cell that does not parse.
ToDatetime(cell) == IF cell.parses THEN [y |-> cell.y, m |-> cell.m] ELSE NaT

\* Lines 57-67.  An upload is [filename, readable, columns, rows].
parse_contents(contents) ==
    IF ~contents.readable THEN Raise(<<"File is not a zip file">>)
    ELSE IF "Start_Date_time" \notin contents.columns THEN KeyError("Start_Date_time")
    ELSE Return([columns |-> contents.columns,
                 rows |-> [i \in 1 .. Len(contents.rows) |->
                              [contents.rows[i] EXCEPT
                                  !.Start_Date_time = ToDatetime(@)]]])

\* Lines 177-188: the values of stored-data and upload-feedback.
store_data(contents, filename) ==
    LET parsed == parse_contents(contents)
    IN IF parsed.kind = "raise"
       THEN [data |-> None,
             feedback |-> [children |-> <<"Error: ", parsed.error>>,
                           className |-> "mt-2 text-red-600"]]
       ELSE [data |-> [data |-> parsed.value, filename |-> filename],
             feedback |-> [children |-> <<"File uploaded: ", filename>>,
                           className |-> "mt-2 text-green-600"]]

-----------------------------------------------------------------------------
(* update_period_selector. *)

NoSelector == [mode |-> "none", options |-> <<>>, values |-> <<>>]

\* Lines 205-211.
get_monthly_selector(periods) ==
    [mode |-> "monthly", options |-> periods, values |-> <<periods[Len(periods)]>>]

\* Lines 213-229.
get_range_selector(periods) ==
    [mode |-> "range", options |-> periods,
     values |-> <<periods[1], periods[Len(periods)]>>]

\* Line 202.
SortedPeriods(data) ==
    SortedStrs({PeriodStr(data.rows[i].Start_Date_time) : i \in 1 .. Len(data.rows)})

\* Lines 197-203: the new children of period-selector; the children stay as they
\* are on PreventUpdate and when the callback raises (periods[-1] of no periods).
update_period_selector(sd, at, current) ==
    IF sd = None THEN current
    ELSE IF SortedPeriods(sd.data) = <<>> THEN current
    ELSE IF at = "Monthly" THEN get_monthly_selector(SortedPeriods(sd.data))
    ELSE get_range_selector(SortedPeriods(sd.data))

-----------------------------------------------------------------------------
(* update_outputs. *)

\* An output of a callback: dash.no_update, or the property's new value.
NoUpdate == [update |-> FALSE]

Update(v) == [update |-> TRUE, value |-> v]

\* A property after a callback's output.
Applied(output, current) == IF output.update THEN output.value ELSE current

PreventUpdate == [kind |-> "PreventUpdate"]

\* Lines 279-282: the sample the mean and the median are taken of.
FreqValue(freq) ==
    IF freq.type = "str" THEN StrToInt(RemoveChar(freq.str, ">")) ELSE freq.int

freq_data(table) ==
    Concat([i \in 1 .. Len(table) |-> Repeat(FreqValue(table[i].Freq), table[i].Students)])

\* Line 285: a quotient, kept as numerator and denominator.
MeanOf(sample) == [num |-> SumSeq(sample), den |-> Len(sample)]

\* (as a slip would have it: the lower of the two middle values)
LowerMedianOf(sample) ==
    SortSeq(sample, LAMBDA a, b : a < b)[((Len(sample) - 1) \div 2) + 1]

\* Line 286.
MedianOf(sample) == SortSeq(sample, LAMBDA a, b : a < b)[(Len(sample) \div 2) + 1]

\* Lines 299-303.
TitleOf(at, pv) ==
    IF at = "Monthly" THEN <<"Booking Frequency Distribution", pv[1]>>
    ELSE <<"Booking Frequency Distribution", pv[1], pv[2]>>

\* Lines 265-310.
FigureOf(table, at, pv) ==
    LET sample == freq_data(table)
    IN [x |-> [i \in 1 .. Len(table) |->
                  IF table[i].Freq.type = "int" THEN IntToStr(table[i].Freq.int)
                  ELSE table[i].Freq.str],
        y |-> [i \in 1 .. Len(table) |-> table[i].Students],
        customdata |-> [i \in 1 .. Len(table) |-> table[i].Details],
        mean |-> IF sample # <<>> THEN MeanOf(sample) ELSE None,
        median |-> IF sample # <<>> THEN <<MedianOf(sample)>> ELSE None,
        title |-> TitleOf(at, pv)]

\* Lines 251-262: the table of the run, or the exception of the try block.
RunTable(sd, at, mu, pv) ==
    IF at = "Monthly"
    THEN IF pv = <<>> \/ pv[1] = None
         THEN Raise(<<"Please select a period">>)
         ELSE create_frequency_table(sd.data, pv[1], None, None, mu)
    ELSE IF Len(pv) < 2
         THEN Raise(<<"Please select start and end periods">>)
         ELSE create_frequency_table(sd.data, None, pv[1], pv[2], mu)

\* Lines 329 and 332: the six outputs (the last, analysis-output, is always "").
SuccessOutputs(fig, table_component) ==
    [figure |-> Update(fig), table |-> Update(table_component), display |-> "block",
     message |-> <<"Analysis completed successfully">>, className |-> "text-green-600"]

\* (as a slip would have it: the figure and the table emptied on an error)
FailureOutputsClearing(error) ==
    [figure |-> Update(None), table |-> Update(None), display |-> "none",
     message |-> <<"Error: ", error>>, className |-> "text-red-600"]

FailureOutputs(error) ==
    [figure |-> NoUpdate, table |-> NoUpdate, display |-> "none",
     message |-> <<"Error: ", error>>, className |-> "text-red-600"]

\* Lines 246-332.
update_outputs(n_clicks, sd, at, mu, pv) ==
    IF n_clicks = 0 \/ sd = None THEN PreventUpdate
    ELSE LET t == RunTable(sd, at, mu, pv)
         IN IF t.kind = "raise" THEN Return(FailureOutputs(t.error))
            ELSE IF t.value = None
            THEN Return(FailureOutputs(<<"'NoneType' object is not subscriptable">>))
            ELSE Return(SuccessOutputs(FigureOf(t.value, at, pv), t.value))

-----------------------------------------------------------------------------
(* export_data. *)

\* Line 363.
SendDataFrame(table) ==
    [filename |-> "booking_frequency.xlsx", sheet_name |-> "Frequency Analysis",
     rows |-> table]

\* Line 17: max_upper of create_frequency_table when the caller passes none.
ParameterDefaultMaxUpper == 10

\* (as a slip would have it: max_upper not passed on)
ExportTableWithDefault(sd, at, mu, pv) ==
    IF at = "Monthly"
    THEN create_frequency_table(sd.data, pv[1], None, None, ParameterDefaultMaxUpper)
    ELSE create_frequency_table(sd.data, None, pv[1], pv[2], ParameterDefaultMaxUpper)

\* Lines 353 and 357-358.
ExportTable(sd, at, mu, pv) ==
    IF at = "Monthly"
    THEN create_frequency_table(sd.data, pv[1], None, None, mu)
    ELSE create_frequency_table(sd.data, None, pv[1], pv[2], mu)

\* Lines 343-365.
export_data(n_clicks, sd, at, mu, pv) ==
    IF n_clicks = 0 \/ sd = None THEN PreventUpdate
    ELSE IF at = "Monthly" /\ (pv = <<>> \/ pv[1] = None) THEN PreventUpdate
    ELSE IF at # "Monthly" /\ Len(pv) < 2 THEN PreventUpdate
    ELSE LET t == ExportTable(sd, at, mu, pv)
         IN IF t.kind = "raise" \/ t.value = None THEN PreventUpdate
            ELSE Return(SendDataFrame(t.value))

-----------------------------------------------------------------------------
(* Inputs. *)

\* Line 117: the initial value of the 'max-upper' input.
DefaultMaxUpper == 15

AnalysisTypes == {"Monthly", "Range"}

\* Cells of an uploaded sheet's Start_Date_time column.
Cell(y, m) == [parses |-> TRUE, y |-> y, m |-> m]

BadCell == [parses |-> FALSE, text |-> "tbc"]

SheetRow(id, name, class, cell) ==
    [Id_Person |-> id, FirstName |-> name, Class_Name |-> class, Start_Date_time |-> cell]

\* The spreadsheets a user uploads: one with every column, whose rows are not in
\* id order and one of whose timestamps does not parse; one without its
\* FirstName column; one without its Start_Date_time column; one that is no
\* spreadsheet.
Bookings ==
    [filename |-> "bookings.xlsx", readable |-> TRUE, columns |-> RequiredColumns,
     rows |-> <<SheetRow(2, "Bo", Yoga, Cell(2024, 1)),
                SheetRow(1, "Al", Yoga, Cell(2024, 1)),
                SheetRow(1, "Al", Yoga, BadCell)>>]

NoNames ==
    [filename |-> "no_names.xlsx", readable |-> TRUE,
     columns |-> RequiredColumns \ {"FirstName"},
     rows |-> <<SheetRow(1, None, Yoga, Cell(2024, 1))>>]

NoTimes ==
    [filename |-> "no_times.xlsx", readable |-> TRUE,
     columns |-> RequiredColumns \ {"Start_Date_time"},
     rows |-> <<SheetRow(1, "Al", Yoga, BadCell)>>]

NotASheet ==
    [filename |-> "notes.txt", readable |-> FALSE, columns |-> {}, rows |-> <<>>]

Uploads == {Bookings, NoNames, NoTimes, NotASheet}

\* The frames handed to the analyzer: every column, 1 .. MaxRows rows, each a
\* yoga booking with any timestamp or a "self practice" booking in January.
AnalyzerRows ==
    [Id_Person : PersonIds, FirstName : FirstNames, Class_Name : {Yoga},
     Start_Date_time : Timestamps]
    \cup
    [Id_Person : PersonIds, FirstName : FirstNames, Class_Name : {SelfPracticeLower},
     Start_Date_time : {January}]

AnalyzerFrames ==
    {[columns |-> RequiredColumns, rows |-> r] :
        r \in UNION {[1 .. n -> AnalyzerRows] : n \in 1 .. MaxRows}}

\* The windows handed to the analyzer: a period, or a start and an end, each a
\* period that update_period_selector offers for some frame.
PeriodChoices == {PeriodStr(t) : t \in Timestamps}

AnalyzerSelectors ==
    {[mode |-> "monthly", options |-> SortedStrs(PeriodChoices), values |-> <<p>>] :
        p \in PeriodChoices}
    \cup
    {[mode |-> "range", options |-> SortedStrs(PeriodChoices), values |-> <<a, b>>] :
        a \in PeriodChoices, b \in PeriodChoices}

-----------------------------------------------------------------------------
(* The state machine. *)

\* The layout (lines 70-167) after the callbacks' first, empty round: each raises
\* PreventUpdate (no contents, no stored data, no click).
Init ==
    /\ stored_data = None
    /\ upload_feedback = [children |-> <<>>, className |-> "mt-2 text-sm"]
    /\ analysis_type = "Monthly"
    /\ max_upper = DefaultMaxUpper
    /\ period_selector = NoSelector
    /\ histogram = None
    /\ table_container = None
    /\ results_section = "none"
    /\ status_message = [children |-> <<>>, className |-> "mb-4"]
    /\ download_xlsx = None
    /\ last_run = None

\* A file is dropped on 'upload-data': store_data runs, and the change of
\* stored-data makes update_period_selector run on the new value.
Upload ==
    \E contents \in Uploads :
        \E out \in {store_data(contents, contents.filename)} :
           /\ stored_data' = out.data
           /\ upload_feedback' = out.feedback
           /\ period_selector' =
                  update_period_selector(out.data, analysis_type, period_selector)
           /\ UNCHANGED <<analysis_type, max_upper, histogram, table_container,
                          results_section, status_message, download_xlsx, last_run>>

\* The user picks the other analysis type, which makes update_period_selector run.
SetAnalysisType ==
    \E at \in AnalysisTypes \ {analysis_type} :
        /\ analysis_type' = at
        /\ period_selector' = update_period_selector(stored_data, at, period_selector)
        /\ UNCHANGED <<stored_data, upload_feedback, max_upper, histogram,
                       table_container, results_section, status_message,
                       download_xlsx, last_run>>

\* The user types a number into 'max-upper'.
SetMaxUpper ==
    \E mu \in TypedMaxUpper \ {max_upper} :
        /\ max_upper' = mu
        /\ UNCHANGED <<stored_data, upload_feedback, analysis_type, period_selector,
                       histogram, table_container, results_section, status_message,
                       download_xlsx, last_run>>

\* The user picks an option of one of the period dropdowns, or clears it.
SelectPeriod ==
    \E k \in 1 .. Len(period_selector.values) :
        \E p \in (Range(period_selector.options) \cup {None}) \ {period_selector.values[k]} :
            /\ period_selector' = [period_selector EXCEPT !.values[k] = p]
            /\ UNCHANGED <<stored_data, upload_feedback, analysis_type, max_upper,
                           histogram, table_container, results_section,
                           status_message, download_xlsx, last_run>>

\* "Run Analysis" is clicked (n_clicks is 1 or more from the first click on).
RunAnalysis ==
    \E out \in {update_outputs(1, stored_data, analysis_type, max_upper,
                               period_selector.values)} :
       /\ out.kind = "return"
       /\ histogram' = Applied(out.value.figure, histogram)
       /\ table_container' = Applied(out.value.table, table_container)
       /\ results_section' = out.value.display
       /\ status_message' = [children |-> out.value.message,
                             className |-> out.value.className]
       /\ last_run' = IF out.value.display = "block"
                      THEN [data |-> stored_data.data, analysis_type |-> analysis_type,
                            max_upper |-> max_upper,
                            period_values |-> period_selector.values]
                      ELSE last_run
       /\ UNCHANGED <<stored_data, upload_feedback, analysis_type, max_upper,
                      period_selector, download_xlsx>>

\* "Export Data (XLS)" is clicked; the button is a child of results-section
\* (lines 135-150) and can be clicked only while the section is displayed.
ExportData ==
    /\ results_section = "block"
    /\ \E out \in {export_data(1, stored_data, analysis_type, max_upper,
                            period_selector.values)} :
       /\ out.kind = "return"
       /\ download_xlsx' = out.value
       /\ UNCHANGED <<stored_data, upload_feedback, analysis_type, max_upper,
                      period_selector, histogram, table_container, results_section,
                      status_message, last_run>>

Next ==
    \/ Upload
    \/ SetAnalysisType
    \/ SetMaxUpper
    \/ SelectPeriod
    \/ RunAnalysis
    \/ ExportData

Spec == Init /\ [][Next]_vars

\* The analyzer on every frame and window: a data set is stored, a window and a
\* max_upper are chosen, and the analysis is run.
InitAnalyzer ==
    /\ stored_data \in {[data |-> f, filename |-> "bookings.xlsx"] : f \in AnalyzerFrames}
    /\ upload_feedback = [children |-> <<"File uploaded: ", "bookings.xlsx">>,
                          className |-> "mt-2 text-green-600"]
    /\ analysis_type \in AnalysisTypes
    /\ max_upper \in MaxUpperInputs
    /\ period_selector \in AnalyzerSelectors
    /\ period_selector.mode = (IF analysis_type = "Monthly" THEN "monthly" ELSE "range")
    /\ histogram = None
    /\ table_container = None
    /\ results_section = "none"
    /\ status_message = [children |-> <<>>, className |-> "mb-4"]
    /\ download_xlsx = None
    /\ last_run = None

NextAnalyzer == RunAnalysis

SpecAnalyzer == InitAnalyzer /\ [][NextAnalyzer]_vars

-----------------------------------------------------------------------------
(* The last successful run, read from its State values and its table. *)

RunSucceeded == last_run # None

RunRows == last_run.data.rows

RunMaxUpper == last_run.max_upper

IsDigit(c) == c \in {"0", "1", "2", "3", "4", "5", "6", "7", "8", "9"}

\* A calendar month written YYYY-MM.
IsMonthStr(p) ==
    /\ Len(p) = 7
    /\ p[5] = "-"
    /\ \A i \in {1, 2, 3, 4, 6, 7} : IsDigit(p[i])

\* The months of a window, counted from year 0.
MonthNumber(y, m) == 12 * y + m

MonthOfStr(p) == MonthNumber(StrToNat(SubSeq(p, 1, 4)), StrToNat(SubSeq(p, 6, 7)))

\* The run's window is a month, or a range of months.
RunWindowIsMonths == \A k \in 1 .. Len(last_run.period_values) :
                         IsMonthStr(last_run.period_values[k])

RunWindowStart == MonthOfStr(last_run.period_values[1])

RunWindowEnd ==
    IF last_run.analysis_type = "Monthly" THEN MonthOfStr(last_run.period_values[1])
    ELSE MonthOfStr(last_run.period_values[2])

\* A row inside the run's window of months: it has a timestamp, of a month of
\* the window.
InsideWindow(r) ==
    /\ r.Start_Date_time # NaT
    /\ RunWindowStart <= MonthNumber(r.Start_Date_time.y, r.Start_Date_time.m)
    /\ MonthNumber(r.Start_Date_time.y, r.Start_Date_time.m) <= RunWindowEnd

\* A row of a class whose name contains "Self Practice", in any case.
IsSelfPractice(r) ==
    /\ r.Class_Name # None
    /\ \E k \in 0 .. (Len(r.Class_Name) - Len(SelfPractice)) :
           \A i \in 1 .. Len(SelfPractice) :
               LowerChar(r.Class_Name[k + i]) = LowerChar(SelfPractice[i])

\* A person's bookings in the window, and the persons with one at least.
BookingCount(id) ==
    Cardinality({i \in 1 .. Len(RunRows) :
                    /\ RunRows[i].Id_Person = id
                    /\ InsideWindow(RunRows[i])
                    /\ ~IsSelfPractice(RunRows[i])})

CountedPersons == {id \in {RunRows[i].Id_Person : i \in 1 .. Len(RunRows)} :
                      BookingCount(id) >= 1}

TotalStudents == SumSeq([i \in 1 .. Len(table_container) |-> table_container[i].Students])

\* C1: for a window of months and max_upper >= 1, the '#Students' of the rows of
\* the table add up to the number of distinct persons with at least one row
\* inside the window whose class is not a "Self Practice" one.
C1_StudentsSumToPersons ==
    (RunSucceeded /\ RunMaxUpper >= 1 /\ RunWindowIsMonths)
        => TotalStudents = Cardinality(CountedPersons)

\* A run that counts a person, over rows of which one is in the window and a
\* self practice and one has no timestamp.
C1_Witness ==
    /\ RunSucceeded /\ RunMaxUpper >= 1 /\ RunWindowIsMonths
    /\ TotalStudents >= 1
    /\ \E i \in 1 .. Len(RunRows) : InsideWindow(RunRows[i]) /\ IsSelfPractice(RunRows[i])
    /\ \E i \in 1 .. Len(RunRows) : RunRows[i].Start_Date_time = NaT

\* C5: in every numeric row i of the table 'Cum 1->' and 'Cum ->End' add up to
\* the number of persons counted; for a window of months the first is the
\* number of persons with at most i bookings and the second the number with more.
C5_CumulativesAddUp ==
    RunSucceeded =>
        \A i \in 1 .. RunMaxUpper :
            /\ table_container[i].CumStart + table_container[i].CumEnd = TotalStudents
            /\ RunWindowIsMonths =>
                  /\ table_container[i].CumStart =
                         Cardinality({id \in CountedPersons : BookingCount(id) <= i})
                  /\ table_container[i].CumEnd =
                         Cardinality({id \in CountedPersons : BookingCount(id) > i})

\* A table with a numeric row that has persons on both sides.
C5_Witness ==
    /\ RunSucceeded /\ RunWindowIsMonths
    /\ \E i \in 1 .. RunMaxUpper :
           table_container[i].CumStart >= 1 /\ table_container[i].CumEnd >= 1

\* The sample of the table's buckets: '#Students' copies of i for numeric row i,
\* and '#Students' copies of a value for the overflow row.
BucketSample(overflow_value) ==
    Concat([i \in 1 .. Len(table_container) |->
               Repeat(IF i < Len(table_container) THEN i ELSE overflow_value,
                      table_container[i].Students)])

IsMeanOf(mean, sample) ==
    mean # None /\ mean.den # 0 /\ mean.num * Len(sample) = SumSeq(sample) * mean.den

\* m stands at 0-based index floor(n/2) of the sorted sample.
IsMedianOf(m, sample) ==
    /\ Cardinality({j \in 1 .. Len(sample) : sample[j] < m}) <= Len(sample) \div 2
    /\ Cardinality({j \in 1 .. Len(sample) : sample[j] <= m}) > Len(sample) \div 2

StatisticsAreOf(sample) ==
    IF sample = <<>> THEN histogram.mean = None /\ histogram.median = None
    ELSE /\ IsMeanOf(histogram.mean, sample)
         /\ histogram.median # None
         /\ IsMedianOf(histogram.median[1], sample)

\* C6 as stated: the mean and the median are those of the sample in which the
\* overflow bucket stands as max_upper + 1.
C6_OverflowAsMaxUpperPlusOne == RunSucceeded => StatisticsAreOf(BucketSample(RunMaxUpper + 1))

\* C6 as amended: the mean and the median (the element at 0-based index
\* floor(n/2) of the sorted sample) are those of the sample in which numeric
\* bucket i stands '#Students'[i] times as i and the overflow bucket stands
\* '#Students'[overflow] times as max_upper.
C6_OverflowAsMaxUpper == RunSucceeded => StatisticsAreOf(BucketSample(RunMaxUpper))

\* A sample of an even number of values, of a numeric and of the overflow bucket.
C6_Witness ==
    /\ RunSucceeded /\ RunMaxUpper >= 1
    /\ table_container[Len(table_container)].Students >= 1
    /\ table_container[1].Students >= 1
    /\ histogram.median = <<RunMaxUpper>>

-----------------------------------------------------------------------------
(* The table's details, the timestamps that do not parse, and max_upper. *)

\* The persons of row k of the table: those with k bookings in a numeric row,
\* those with more than max_upper in the overflow row.
BucketPersons(k) ==
    IF k < Len(table_container)
    THEN {id \in CountedPersons : BookingCount(id) = k}
    ELSE {id \in CountedPersons : BookingCount(id) > RunMaxUpper}

\* The FirstName of a person's first row inside the window that is no self practice.
FirstNameOf(id) ==
    LET first == CHOOSE i \in 1 .. Len(RunRows) :
                     /\ RunRows[i].Id_Person = id
                     /\ InsideWindow(RunRows[i]) /\ ~IsSelfPractice(RunRows[i])
                     /\ \A j \in 1 .. (i - 1) :
                            ~(/\ RunRows[j].Id_Person = id
                              /\ InsideWindow(RunRows[j]) /\ ~IsSelfPractice(RunRows[j]))
    IN RunRows[first].FirstName

\* C2: 'Details' of every row of the table holds one "name : id" entry for each
\* person of the row's bucket and no other entry, the name being the person's
\* first-encountered FirstName.
C2_DetailsNameEachPerson ==
    (RunSucceeded /\ RunWindowIsMonths) =>
        \A k \in 1 .. Len(table_container) :
            LET details == table_container[k].Details
            IN /\ Len(details) = Cardinality(BucketPersons(k))
               /\ {details[j].id : j \in 1 .. Len(details)} = BucketPersons(k)
               /\ \A j \in 1 .. Len(details) :
                      details[j].id \in BucketPersons(k)
                          => details[j].name = FirstNameOf(details[j].id)

\* The frame of the last run without the rows whose timestamp did not parse.
RunDataParsedOnly ==
    [last_run.data EXCEPT !.rows = SelectSeq(@, LAMBDA r : r.Start_Date_time # NaT)]

\* C3: the rows whose timestamp did not parse add to no count of the table: the
\* table of a run is the table of the same run on the frame without them.
C3_UnparsedRowsCountNowhere ==
    RunSucceeded =>
        LET t == RunTable([data |-> RunDataParsedOnly], last_run.analysis_type,
                          RunMaxUpper, last_run.period_values).value
        IN \A k \in 1 .. Len(table_container) :
               /\ table_container[k].Students = t[k].Students
               /\ table_container[k].CumStart = t[k].CumStart
               /\ table_container[k].CumEnd = t[k].CumEnd

\* C4: no run with max_upper < 1 yields a table and the success status.
C4_NoTableBelowOne == RunSucceeded => RunMaxUpper >= 1

\* C9: a data set is stored only of a sheet that has the four required columns.
C9_StoredDataHasRequiredColumns ==
    stored_data # None => RequiredColumns \subseteq stored_data.data.columns

-----------------------------------------------------------------------------
(* Runs that fail, and exports. *)

\* The click on "Run Analysis" ends in the except branch.
RunFails ==
    /\ RunAnalysis
    /\ \E out \in {update_outputs(1, stored_data, analysis_type, max_upper,
                                  period_selector.values)} :
           out.kind = "return" /\ out.value.className = "text-red-600"

\* No window is chosen: no period in a monthly analysis, no start or no end in
\* a range analysis.
WindowUnspecified ==
    IF analysis_type = "Monthly"
    THEN period_selector.values = <<>> \/ period_selector.values[1] = None
    ELSE \/ Len(period_selector.values) < 2
         \/ period_selector.values[1] = None
         \/ period_selector.values[2] = None

\* C7 as stated: a run that fails after a successful one leaves the histogram,
\* the table and the display of the results section as they were.
C7_FailedRunLeavesResultsShown ==
    [][(RunFails /\ RunSucceeded) =>
          /\ histogram' = histogram
          /\ table_container' = table_container
          /\ results_section' = results_section]_vars

\* C7 as amended: a run that fails after a successful one leaves the histogram
\* and the table as they were, hides the results section and sets the status
\* message to the error.
C7_FailedRunHidesResults ==
    [][(RunFails /\ RunSucceeded) =>
          /\ histogram' = histogram
          /\ table_container' = table_container
          /\ results_section' = "none"
          /\ status_message'.className = "text-red-600"]_vars

\* A failed run after a successful one: a figure is kept, hidden, under an error.
C7_Witness ==
    /\ RunSucceeded /\ histogram # None
    /\ results_section = "none"
    /\ status_message.className = "text-red-600"

\* C8: a run on a loaded data set with no window chosen never reports the error
\* status.
C8_UnspecifiedWindowIsNeutral ==
    [][(RunAnalysis /\ stored_data # None /\ WindowUnspecified) =>
          status_message'.className # "text-red-600"]_vars

\* The State values of the callbacks as they are now.
CurrentInputs ==
    [data |-> stored_data.data, analysis_type |-> analysis_type,
     max_upper |-> max_upper, period_values |-> period_selector.values]

\* C10 as stated: the rows of an exported file are the table that the last
\* successful run displays.
C10_ExportIsDisplayedTable ==
    [][ExportData => download_xlsx'.rows = table_container]_vars

\* C10 as amended: the rows of an exported file are the table of the stored data
\* set, analysis type, periods and max_upper as they are when the export is
\* clicked; they are the displayed table when those are as they were at the
\* last successful run.
C10_ExportIsTableOfCurrentInputs ==
    [][ExportData =>
          /\ download_xlsx'.rows =
                 RunTable(stored_data, analysis_type, max_upper,
                          period_selector.values).value
          /\ (CurrentInputs = last_run) => (download_xlsx'.rows = table_container)]_vars

\* A file was exported whose rows are not the displayed table.
C10_Witness ==
    /\ download_xlsx # None
    /\ results_section = "block"
    /\ download_xlsx.rows # table_container

====
